---- MODULE Spec2Model ----
(***************************************************************************)
(* Model of pitcher-plinko: the pitch table handed to                      *)
(* PitcherDataFetcher.process_pitch_data, the aggregates computed by       *)
(* PlinkoChartGenerator.__init__ and the artists drawn by generate_chart.  *)
(*                                                                         *)
(* Numbers: a missing numeric cell (NaN) is the sentinel NaN, never equal  *)
(* to a real value (all real values are >= 0); a missing pitch_type is NA. *)
(* Lengths, angles and widths are exact rationals [num, den]; the code's   *)
(* float64 rounding is not modelled.                                       *)
(***************************************************************************)
EXTENDS Integers, Sequences, FiniteSets, TLC

VARIABLES
    pc,           \* position in the pipeline
    raw_data,     \* the provider's frame: [columns, rows]
    pitch_data,   \* PlinkoChartGenerator.pitch_data (processed rows)
    count_data,   \* PlinkoChartGenerator.count_data
    flow_counts,  \* PlinkoChartGenerator.flow_counts
    lines,        \* segments plotted by _draw_connecting_lines, in order
    nodes,        \* per count, what _draw_count_node added to the axis
    legend,       \* legend_elements passed to ax.legend
    error,        \* the exception raised, or "none"
    request,      \* the arguments of get_processed_data and what the
                  \* provider answers to them
    result        \* the tuple get_processed_data returned

vars == <<pc, raw_data, pitch_data, count_data, flow_counts, lines, nodes,
          legend, error, request, result>>

----------------------------------------------------------------------------
(* Bounds *)

MaxRows == 3

----------------------------------------------------------------------------
(* constants.py *)

NaN == 0 - 1
NA == "<NA>"

PITCH_COLORS ==
    [t \in {"FF", "SI", "FC", "SL", "CU", "CH", "FS", "KC", "ST", "SV"} |->
        CASE t = "FF" -> "#FF4B4B"
          [] t = "SI" -> "#FF8C42"
          [] t = "FC" -> "#B85C38"
          [] t = "SL" -> "#FFC914"
          [] t = "CU" -> "#00C9FF"
          [] t = "CH" -> "#21C354"
          [] t = "FS" -> "#00D4AA"
          [] t = "KC" -> "#4A9EFF"
          [] t = "ST" -> "#FF6EC7"
          [] t = "SV" -> "#FF7043"]

PITCH_NAMES ==
    [t \in {"FF", "SI", "FC", "SL", "CU", "CH", "FS", "KC", "ST", "SV"} |->
        CASE t = "FF" -> "4-Seam FB"
          [] t = "SI" -> "Sinker"
          [] t = "FC" -> "Cutter"
          [] t = "SL" -> "Slider"
          [] t = "CU" -> "Curveball"
          [] t = "CH" -> "Changeup"
          [] t = "FS" -> "Splitter"
          [] t = "KC" -> "Knuckle Curve"
          [] t = "ST" -> "Sweeper"
          [] t = "SV" -> "Slurve"]

\* The keys of COUNT_POSITIONS in insertion order (the order .keys() and
\* .items() iterate in).
COUNT_ORDER ==
    <<"0-0", "1-0", "0-1", "2-0", "1-1", "0-2",
      "3-0", "2-1", "1-2", "3-1", "2-2", "3-2">>

\* Layout positions, in hundredths of a data unit.
COUNT_POSITIONS ==
    [c \in {COUNT_ORDER[i] : i \in 1..Len(COUNT_ORDER)} |->
        CASE c = "0-0" -> <<150, 400>>
          [] c = "1-0" -> <<275, 325>>
          [] c = "0-1" -> <<25, 325>>
          [] c = "2-0" -> <<350, 250>>
          [] c = "1-1" -> <<150, 250>>
          [] c = "0-2" -> <<0 - 50, 250>>
          [] c = "3-0" -> <<350, 150>>
          [] c = "2-1" -> <<150, 150>>
          [] c = "1-2" -> <<0 - 50, 150>>
          [] c = "3-1" -> <<275, 50>>
          [] c = "2-2" -> <<25, 50>>
          [] c = "3-2" -> <<150, 0>>]

COUNT_TRANSITIONS ==
    << <<"0-0", "1-0">>, <<"0-0", "0-1">>,
       <<"1-0", "2-0">>, <<"1-0", "1-1">>,
       <<"0-1", "1-1">>, <<"0-1", "0-2">>,
       <<"2-0", "3-0">>, <<"2-0", "2-1">>,
       <<"1-1", "2-1">>, <<"1-1", "1-2">>,
       <<"0-2", "1-2">>,
       <<"3-0", "3-1">>,
       <<"2-1", "3-1">>, <<"2-1", "2-2">>,
       <<"1-2", "2-2">>,
       <<"3-1", "3-2">>, <<"2-2", "3-2">> >>

\* CHART_CONFIG['min_line_width'] = 1.5 and ['max_line_width'] = 18, in
\* tenths of a point.
min_line_width == 15
max_line_width == 180

\* The color _draw_count_node falls back to for a type without a color.
FallbackColor == "#cccccc"

----------------------------------------------------------------------------
(* Generic helpers *)

Range(s) == {s[i] : i \in 1..Len(s)}

RECURSIVE SumSeq(_)
SumSeq(s) == IF s = <<>> THEN 0 ELSE Head(s) + SumSeq(Tail(s))

\* dict.get(key, default)
Get(d, k, default) == IF k \in DOMAIN d THEN d[k] ELSE default

\* d[k] = v on a dict
Put(d, k, v) == [x \in (DOMAIN d) \cup {k} |-> IF x = k THEN v ELSE d[x]]

EmptyDict == [x \in {} |-> 0]

----------------------------------------------------------------------------
(* pitcher_data.py: process_pitch_data *)

\* The columns process_pitch_data reads from the raw frame.
SelectedColumns ==
    {"balls", "strikes", "pitch_type", "release_speed", "events",
     "description", "game_date", "at_bat_number", "pitch_number"}

\* a < b in the order sort_values uses for one key: NaN sorts last.
KeyLess(a, b) == a # NaN /\ (b = NaN \/ a < b)

\* r sorts strictly before q by ['game_date', 'at_bat_number', 'pitch_number'].
RowLess(r, q) ==
    \/ KeyLess(r.game_date, q.game_date)
    \/ /\ r.game_date = q.game_date
       /\ \/ KeyLess(r.at_bat_number, q.at_bat_number)
          \/ /\ r.at_bat_number = q.at_bat_number
             /\ KeyLess(r.pitch_number, q.pitch_number)

\* Insert r behind every row that does not sort after it: rows with equal
\* keys keep their input order (the multi-key sort is a stable lexsort).
RECURSIVE InsertSorted(_, _)
InsertSorted(sorted, r) ==
    IF sorted = <<>> THEN <<r>>
    ELSE IF RowLess(r, Head(sorted)) THEN <<r>> \o sorted
    ELSE <<Head(sorted)>> \o InsertSorted(Tail(sorted), r)

\* DataFrame.sort_values(by = ['game_date', 'at_bat_number', 'pitch_number'])
RECURSIVE SortValues(_)
SortValues(rows) ==
    IF rows = <<>> THEN <<>>
    ELSE InsertSorted(SortValues(SubSeq(rows, 1, Len(rows) - 1)),
                      rows[Len(rows)])

\* str() of an integer cell of an int64 column.
IntStr(n) ==
    CASE n = 0 -> "0" [] n = 1 -> "1" [] n = 2 -> "2" [] n = 3 -> "3"
      [] n = 4 -> "4"

\* Series.astype(str) of one cell: a column holding a NaN is float64, so
\* every cell of it prints as a float.
AsTypeStr(v, columnHasNaN) ==
    IF v = NaN THEN "nan"
    ELSE IF columnHasNaN THEN IntStr(v) \o ".0"
    ELSE IntStr(v)

HasNaN(rows, col) == \E i \in 1..Len(rows) : rows[i][col] = NaN

\* pitch_data['count'] of one row
CountOf(r, rows) ==
    AsTypeStr(r.balls, HasNaN(rows, "balls")) \o "-"
        \o AsTypeStr(r.strikes, HasNaN(rows, "strikes"))

\* The frame process_pitch_data returns (release_speed, events and
\* description are carried but never read again and are left out).
ProcessRows(rows) ==
    LET data_sorted == SortValues(rows)
    IN  [i \in 1..Len(data_sorted) |->
            [balls |-> data_sorted[i].balls,
             strikes |-> data_sorted[i].strikes,
             pitch_type |-> data_sorted[i].pitch_type,
             game_date |-> data_sorted[i].game_date,
             at_bat_number |-> data_sorted[i].at_bat_number,
             pitch_number |-> data_sorted[i].pitch_number,
             count |-> CountOf(data_sorted[i], data_sorted)]]

----------------------------------------------------------------------------
(* plinko_chart.py: _calculate_count_data *)

\* Mutant of Tallied: value_counts(dropna = False), missing values tallied.
TalliedWithNA(t) == TRUE

\* value_counts() leaves missing values out of the tally (dropna = True).
Tallied(t) == t # NA

\* The tally value_counts() makes of a sequence of pitch_type cells.
RECURSIVE TallyTypes(_, _)
TallyTypes(types, acc) ==
    IF types = <<>> THEN acc
    ELSE TallyTypes(Tail(types),
                    IF Tallied(Head(types))
                    THEN Put(acc, Head(types), Get(acc, Head(types), 0) + 1)
                    ELSE acc)

\* All sequences that list every element of S once.
RECURSIVE Orderings(_)
Orderings(S) ==
    IF S = {} THEN {<<>>}
    ELSE UNION {{<<x>> \o o : o \in Orderings(S \ {x})} : x \in S}

\* value_counts() sorts the tally by frequency, descending.
Descending(s) == \A i \in 1..(Len(s) - 1) : s[i].n >= s[i + 1].n

\* The Series value_counts() can return for a tally: the entries sorted by
\* descending frequency.  Its sort is not a stable one (kind = 'quicksort'),
\* so the order among entries of equal frequency is whatever the sort of
\* the installed numpy leaves: every descending order is possible.
ValueCounts(tally) ==
    {s \in {[i \in 1..Len(o) |-> [pitch_type |-> o[i], n |-> tally[o[i]]]] :
               o \in Orderings(DOMAIN tally)} : Descending(s)}

\* self.pitch_data[self.pitch_data['count'] == count]['pitch_type']
PitchTypesAt(data, count) ==
    LET AtCount(r) == r.count = count
        count_pitches == SelectSeq(data, AtCount)
    IN  [i \in 1..Len(count_pitches) |-> count_pitches[i].pitch_type]

\* The dicts _calculate_count_data can return, built count by count in the
\* order of COUNT_POSITIONS.keys(); i is the number of counts done.
RECURSIVE CalculateCountData(_, _)
CalculateCountData(data, i) ==
    IF i = 0 THEN {EmptyDict}
    ELSE {Put(d, COUNT_ORDER[i], pitch_type_counts) :
            d \in CalculateCountData(data, i - 1),
            pitch_type_counts \in
                ValueCounts(TallyTypes(PitchTypesAt(data, COUNT_ORDER[i]),
                                       EmptyDict))}

----------------------------------------------------------------------------
(* plinko_chart.py: _calculate_flow_counts *)

transition_set == Range(COUNT_TRANSITIONS)

\* Mutant of InTransitionSet: every observed pair is counted.
InTransitionSetUnchecked(transition) == TRUE

\* `if transition in transition_set`
InTransitionSet(transition) == transition \in transition_set

\* The loop over range(len(counts_in_ab) - 1), from index i on.
RECURSIVE TrackTransitions(_, _, _)
TrackTransitions(counts_in_ab, i, flow) ==
    IF i > Len(counts_in_ab) - 1 THEN flow
    ELSE LET transition == <<counts_in_ab[i], counts_in_ab[i + 1]>>
         IN  TrackTransitions(counts_in_ab, i + 1,
                 IF InTransitionSet(transition)
                 THEN Put(flow, transition, Get(flow, transition, 0) + 1)
                 ELSE flow)

\* The key groupby(['game_date', 'at_bat_number']) files a row under.
GroupKey(r) == <<r.game_date, r.at_bat_number>>

\* groupby drops the rows whose key holds a NaN (dropna = True).
Grouped(r) == r.game_date # NaN /\ r.at_bat_number # NaN

\* The group keys, in order of first appearance in the sorted frame.
RECURSIVE GroupKeys(_, _)
GroupKeys(rows, acc) ==
    IF rows = <<>> THEN acc
    ELSE GroupKeys(Tail(rows),
                   IF Grouped(Head(rows)) /\ GroupKey(Head(rows)) \notin Range(acc)
                   THEN Append(acc, GroupKey(Head(rows)))
                   ELSE acc)

\* group['count'].tolist() of the group with the given key: its rows in the
\* order of the sorted frame.
CountsInAb(sorted, key) ==
    LET InGroup(r) == Grouped(r) /\ GroupKey(r) = key
        group == SelectSeq(sorted, InGroup)
    IN  [i \in 1..Len(group) |-> group[i].count]

\* The loop over the groups.
RECURSIVE TrackGroups(_, _, _)
TrackGroups(keys, sorted, flow) ==
    IF keys = <<>> THEN flow
    ELSE TrackGroups(Tail(keys), sorted,
                     TrackTransitions(CountsInAb(sorted, Head(keys)), 1, flow))

CalculateFlowCounts(data) ==
    LET pitch_data_sorted == SortValues(data)
    IN  TrackGroups(GroupKeys(pitch_data_sorted, <<>>), pitch_data_sorted,
                    EmptyDict)

----------------------------------------------------------------------------
(* Exact rationals, for the float arithmetic of the drawing code *)

Rat(n, d) == [num |-> n, den |-> d]
RatAdd(a, b) == Rat(a.num * b.den + b.num * a.den, a.den * b.den)
RatSub(a, b) == Rat(a.num * b.den - b.num * a.den, a.den * b.den)
RatMul(a, b) == Rat(a.num * b.num, a.den * b.den)
RatEq(a, b) == a.num * b.den = b.num * a.den
RatLess(a, b) == a.num * b.den < b.num * a.den

----------------------------------------------------------------------------
(* plinko_chart.py: _draw_connecting_lines *)

\* Mutant of MaxOf: the smallest element taken for the largest.
RECURSIVE MinOf(_)
MinOf(S) ==
    LET x == CHOOSE y \in S : TRUE
    IN  IF S = {x} THEN x
        ELSE LET m == MinOf(S \ {x}) IN IF x < m THEN x ELSE m

RECURSIVE MaxOf(_)
MaxOf(S) ==
    LET x == CHOOSE y \in S : TRUE
    IN  IF S = {x} THEN x
        ELSE LET m == MaxOf(S \ {x}) IN IF x > m THEN x ELSE m

\* Mutant of LineWidth: the width scaled from 0 instead of from min_width.
LineWidthFromZero(flow_count, max_flow) ==
    RatMul(Rat(flow_count, max_flow), Rat(max_line_width, 1))

\* min_width + (flow_count / max_flow) * (max_width - min_width), in tenths.
LineWidth(flow_count, max_flow) ==
    RatAdd(Rat(min_line_width, 1),
           RatMul(Rat(flow_count, max_flow),
                  Rat(max_line_width - min_line_width, 1)))

\* Mutant of IsDrawn: a transition without flow is drawn too.
IsDrawnAlways(flow_count) == flow_count >= 0

\* `if flow_count > 0`
IsDrawn(flow_count) == flow_count > 0

\* The loop over COUNT_TRANSITIONS, from index i on; plotted is what
\* ax.plot has drawn so far.
RECURSIVE PlotTransitions(_, _, _, _)
PlotTransitions(flow, max_flow, i, plotted) ==
    IF i > Len(COUNT_TRANSITIONS) THEN plotted
    ELSE LET start_count == COUNT_TRANSITIONS[i][1]
             end_count == COUNT_TRANSITIONS[i][2]
             flow_count == Get(flow, <<start_count, end_count>>, 0)
         IN  PlotTransitions(flow, max_flow, i + 1,
                 IF /\ start_count \in DOMAIN COUNT_POSITIONS
                    /\ end_count \in DOMAIN COUNT_POSITIONS
                    /\ IsDrawn(flow_count)
                 THEN Append(plotted,
                             [start_count |-> start_count,
                              end_count |-> end_count,
                              xy1 |-> COUNT_POSITIONS[start_count],
                              xy2 |-> COUNT_POSITIONS[end_count],
                              linewidth |-> LineWidth(flow_count, max_flow)])
                 ELSE plotted)

DrawConnectingLines(flow) ==
    IF DOMAIN flow = {} THEN <<>>
    ELSE PlotTransitions(flow, MaxOf({flow[t] : t \in DOMAIN flow}), 1, <<>>)

----------------------------------------------------------------------------
(* plinko_chart.py: _draw_count_node *)

\* PITCH_COLORS.get(pitch_type, '#cccccc')
WedgeColor(pitch_type) ==
    IF pitch_type \in DOMAIN PITCH_COLORS THEN PITCH_COLORS[pitch_type]
    ELSE FallbackColor

\* Mutant of WedgeAngle: the share taken by integer division.
WedgeAngleFloorDiv(count_val, total_pitches) ==
    Rat(360 * (count_val \div total_pitches), 1)

\* angle = 360 * (count_val / total_pitches), in degrees
WedgeAngle(count_val, total_pitches) ==
    RatMul(Rat(360, 1), Rat(count_val, total_pitches))

\* The loop over pitch_types.items(), from entry i on.
RECURSIVE DrawWedges(_, _, _, _, _)
DrawWedges(pitch_types, total_pitches, i, start_angle, wedges) ==
    IF i > Len(pitch_types) THEN wedges
    ELSE LET angle == WedgeAngle(pitch_types[i].n, total_pitches)
         IN  DrawWedges(pitch_types, total_pitches, i + 1,
                        RatAdd(start_angle, angle),
                        Append(wedges,
                               [pitch_type |-> pitch_types[i].pitch_type,
                                theta1 |-> start_angle,
                                theta2 |-> RatAdd(start_angle, angle),
                                facecolor |-> WedgeColor(pitch_types[i].pitch_type)]))

\* What _draw_count_node adds to the axis for one count: the light gray
\* disc, or the wedges with the n = total label.
DrawCountNode(cd, count) ==
    IF count \notin DOMAIN cd \/ Len(cd[count]) = 0
    THEN [kind |-> "circle", color |-> "lightgray", label |-> count,
          wedges |-> <<>>, total_pitches |-> 0]
    ELSE LET pitch_types == cd[count]
             total_pitches ==
                 SumSeq([i \in 1..Len(pitch_types) |-> pitch_types[i].n])
         IN  [kind |-> "pie", color |-> "white", label |-> count,
              wedges |-> DrawWedges(pitch_types, total_pitches, 1,
                                    Rat(90, 1), <<>>),
              total_pitches |-> total_pitches]

----------------------------------------------------------------------------
(* plinko_chart.py: _create_legend *)

\* `if pitch_type in PITCH_COLORS and pd.notna(pitch_type)`
InLegend(pitch_type) == pitch_type \in DOMAIN PITCH_COLORS /\ pitch_type # NA

\* The loop over pitch_counts.index, from entry i on.
RECURSIVE LegendElements(_, _, _)
LegendElements(pitch_counts, i, legend_elements) ==
    IF i > Len(pitch_counts) THEN legend_elements
    ELSE LET pitch_type == pitch_counts[i].pitch_type
         IN  LegendElements(pitch_counts, i + 1,
                 IF InLegend(pitch_type)
                 THEN Append(legend_elements,
                             [pitch_type |-> pitch_type,
                              name |-> Get(PITCH_NAMES, pitch_type, pitch_type),
                              count |-> pitch_counts[i].n,
                              color |-> PITCH_COLORS[pitch_type]])
                 ELSE legend_elements)

\* self.pitch_data['pitch_type']
AllPitchTypes(data) == [i \in 1..Len(data) |-> data[i].pitch_type]

----------------------------------------------------------------------------
(* The tables the provider can return *)

\* Games 1 and 2 are the two games of a doubleheader (one date); game 3 is
\* played on the next date.
GameDate(game_pk) == (game_pk + 1) \div 2

Row(g, d, ab, pn, b, s, t) ==
    [game_pk |-> g, game_date |-> d, at_bat_number |-> ab,
     pitch_number |-> pn, balls |-> b, strikes |-> s, pitch_type |-> t]

\* Rows that differ in game, pitch number and count.
FlowRows ==
    {Row(g, GameDate(g), 1, pn, b, 0, "FF") :
        g \in {1, 2}, pn \in {1, 2}, b \in {0, 1}}
    \cup {Row(1, 1, 1, 2, 1, 1, "FF"), Row(1, 1, 2, 1, 0, 0, "FF"),
          Row(3, 2, 1, 1, 0, 0, "FF")}

\* Rows that differ in pitch type: a second known type, a type without a
\* color (knuckleball) and a missing type.
TypeRows == {Row(1, 1, 1, 1, 0, 0, t) : t \in {"SL", "KN", NA}}

\* Rows with one required identifying field missing.
NullRows ==
    {Row(1, NaN, 1, 1, 0, 0, "FF"), Row(1, 1, NaN, 1, 0, 0, "FF"),
     Row(1, 1, 1, NaN, 0, 0, "FF"), Row(1, 1, 1, 1, NaN, 0, "FF"),
     Row(1, 1, 1, 1, 0, NaN, "FF")}

RowDomain == FlowRows \cup TypeRows \cup NullRows

RECURSIVE SeqsUpTo(_, _)
SeqsUpTo(S, n) ==
    IF n = 0 THEN {<<>>}
    ELSE LET shorter == SeqsUpTo(S, n - 1)
         IN  shorter \cup {Append(s, x) : s \in shorter, x \in S}

\* At-bat A with counts 0-0, 1-0, 1-1 and at-bat B with counts 0-0, 0-1.
ScenarioTwoAtBats ==
    <<Row(1, 1, 1, 1, 0, 0, "FF"), Row(1, 1, 1, 2, 1, 0, "FF"),
      Row(1, 1, 1, 3, 1, 1, "FF"), Row(1, 1, 2, 1, 0, 0, "FF"),
      Row(1, 1, 2, 2, 0, 1, "FF")>>

\* The first at-bat of each game of a doubleheader, and the same rows with
\* the second pitches in the other order.
ScenarioDoubleheader ==
    <<Row(1, 1, 1, 1, 0, 0, "FF"), Row(2, 1, 1, 1, 0, 0, "SL"),
      Row(1, 1, 1, 2, 1, 0, "FF"), Row(2, 1, 1, 2, 0, 1, "SL")>>

ScenarioDoubleheaderSwapped ==
    <<Row(1, 1, 1, 1, 0, 0, "FF"), Row(2, 1, 1, 1, 0, 0, "SL"),
      Row(2, 1, 1, 2, 0, 1, "SL"), Row(1, 1, 1, 2, 1, 0, "FF")>>

Tables ==
    SeqsUpTo(RowDomain, MaxRows)
    \cup {ScenarioTwoAtBats, ScenarioDoubleheader, ScenarioDoubleheaderSwapped}

\* The frames: every table with all columns, and frames that lack one of
\* the columns process_pitch_data selects.
Frames ==
    {[columns |-> SelectedColumns \cup {"game_pk"}, rows |-> t] : t \in Tables}
    \cup {[columns |-> (SelectedColumns \cup {"game_pk"}) \ {c}, rows |-> t] :
            c \in SelectedColumns, t \in SeqsUpTo(FlowRows, 1)}

----------------------------------------------------------------------------
(* State machine *)

NoNodes == [c \in {} |-> 0]

\* No call of get_processed_data is under way.
NoRequest == [kind |-> "none"]
NoResult == [kind |-> "none"]

Init ==
    /\ pc = "raw"
    /\ raw_data \in Frames
    /\ pitch_data = <<>>
    /\ count_data = EmptyDict
    /\ flow_counts = EmptyDict
    /\ lines = <<>>
    /\ nodes = NoNodes
    /\ legend = <<>>
    /\ error = "none"
    /\ request = NoRequest
    /\ result = NoResult

\* process_pitch_data(raw_data): a KeyError when a selected column is not
\* in the frame, the processed frame otherwise.
ProcessPitchData ==
    /\ pc = "raw"
    /\ IF SelectedColumns \subseteq raw_data.columns
       THEN /\ pitch_data' = ProcessRows(raw_data.rows)
            /\ pc' = "processed"
            /\ error' = error
       ELSE /\ pitch_data' = pitch_data
            /\ pc' = "raised"
            /\ error' = "KeyError"
    /\ UNCHANGED <<raw_data, count_data, flow_counts, lines, nodes, legend,
                   request, result>>

\* PlinkoChartGenerator.__init__(pitch_data)
Construct ==
    /\ pc = "processed"
    /\ count_data' \in CalculateCountData(pitch_data, Len(COUNT_ORDER))
    /\ flow_counts' = CalculateFlowCounts(pitch_data)
    /\ pc' = "constructed"
    /\ UNCHANGED <<raw_data, pitch_data, lines, nodes, legend, error,
                   request, result>>

\* generate_chart(): the lines, then the twelve nodes, then the legend.
\* ax.legend gets ncol = len(legend_elements); with no legend entry that is
\* ncol = 0, which matplotlib 3.6 and later reject with a ValueError (the
\* legend box is split into ncol columns) and earlier versions replace by 1.
GenerateChart ==
    /\ pc = "constructed"
    /\ lines' = DrawConnectingLines(flow_counts)
    /\ nodes' = [c \in Range(COUNT_ORDER) |-> DrawCountNode(count_data, c)]
    /\ \E pitch_counts \in
            ValueCounts(TallyTypes(AllPitchTypes(pitch_data), EmptyDict)) :
         legend' = LegendElements(pitch_counts, 1, <<>>)
    /\ \/ /\ pc' = "done"
          /\ error' = error
       \/ /\ Len(legend') = 0
          /\ pc' = "raised"
          /\ error' = "ValueError"
    /\ UNCHANGED <<raw_data, pitch_data, count_data, flow_counts, request,
                   result>>

Next == ProcessPitchData \/ Construct \/ GenerateChart

Spec == Init /\ [][Next]_vars

----------------------------------------------------------------------------
(* _draw_connecting_lines as a function of the flow table *)

\* The flow counts and the transitions the flow tables are drawn from.
FlowValues == {1, 2, 20, 80}
FlowKeys == {COUNT_TRANSITIONS[i] : i \in 1..4}

FlowTables == UNION {[K -> FlowValues] : K \in SUBSET FlowKeys}

\* A generator whose flow table is any of FlowTables; the method reads
\* nothing else of the generator.
InitDraw ==
    /\ pc = "constructed"
    /\ raw_data = [columns |-> SelectedColumns \cup {"game_pk"}, rows |-> <<>>]
    /\ pitch_data = <<>>
    /\ count_data = [c \in Range(COUNT_ORDER) |-> <<>>]
    /\ flow_counts \in FlowTables
    /\ lines = <<>>
    /\ nodes = NoNodes
    /\ legend = <<>>
    /\ error = "none"
    /\ request = NoRequest
    /\ result = NoResult

\* self._draw_connecting_lines(ax)
DrawLines ==
    /\ pc = "constructed"
    /\ lines' = DrawConnectingLines(flow_counts)
    /\ pc' = "lines"
    /\ UNCHANGED <<raw_data, pitch_data, count_data, flow_counts, nodes,
                   legend, error, request, result>>

NextDraw == DrawLines

SpecDraw == InitDraw /\ [][NextDraw]_vars

----------------------------------------------------------------------------
(* pitcher_data.py: get_processed_data, and app.py: _render_chart *)

\* Python's None and a value that is not None.
None == <<>>
Some(x) == <<x>>

\* What playerid_lookup answers: a frame with one player row (whose id or
\* first name may be missing), an empty frame, or an exception with any
\* text, the empty text included.
LookupAnswers ==
    {[kind |-> "rows", key_mlbam |-> k, name_first |-> f, name_last |-> "fried"] :
        k \in {608331, NaN}, f \in {"max", NA}}
    \cup {[kind |-> "empty"]}
    \cup {[kind |-> "raises", text |-> m] : m \in {"", "timed out"}}

\* What statcast_pitcher answers: the frame raw_data, or an exception.
StatcastAnswers ==
    {[kind |-> "returns"]}
    \cup {[kind |-> "raises", text |-> m] : m \in {"", "timed out"}}

Requests ==
    {[kind |-> "request", first_name |-> "max", last_name |-> l, year |-> y,
      playerid_lookup |-> a, statcast_pitcher |-> b] :
        l \in {"fried", "scherzer"}, y \in {2024, 2025},
        a \in LookupAnswers, b \in StatcastAnswers}

\* The frames statcast_pitcher returns in these requests.
FetchFrames == {f \in Frames : Len(f.rows) <= 1}

\* str.title() of the names in use.
Title(name) ==
    CASE name = "max" -> "Max"
      [] name = "fried" -> "Fried"
      [] name = "scherzer" -> "Scherzer"

\* f"{year}"
YearStr(year) == CASE year = 2024 -> "2024" [] year = 2025 -> "2025"

\* Mutant of LookupErrorMessage: the exception re-raised with its own text.
LookupErrorMessageBare(text) == text

\* lookup_pitcher: f"Error looking up pitcher: {str(e)}"
LookupErrorMessage(text) == "Error looking up pitcher: " \o text

\* fetch_pitch_data: f"Error fetching pitch data: {str(e)}"
FetchErrorMessage(text) == "Error fetching pitch data: " \o text

\* f"No pitcher found with name {first_name} {last_name}"
NoPitcherMessage(first_name, last_name) ==
    "No pitcher found with name " \o first_name \o " " \o last_name

\* f"No pitch data found for {pitcher_name} in {year}"
NoDataMessage(pitcher_name, year) ==
    "No pitch data found for " \o pitcher_name \o " in " \o YearStr(year)

\* str() of the KeyError process_pitch_data raises on a frame that lacks
\* column c: sort_values names a missing sort key, the column selection
\* lists a missing selected column.
KeyErrorMessage(c) ==
    IF c \in {"game_date", "at_bat_number", "pitch_number"}
    THEN "'" \o c \o "'"
    ELSE "\"['" \o c \o "'] not in index\""

Failure(message) ==
    [kind |-> "tuple", processed_data |-> None, pitcher_name |-> None,
     error_message |-> Some(message)]

\* get_pitcher_id on a frame with a player row: the id and the full name,
\* or the exception int() or .title() raises on a missing cell.
GetPitcherId(row) ==
    IF row.name_first = NA
    THEN [kind |-> "raises",
          text |-> "'float' object has no attribute 'title'"]
    ELSE IF row.key_mlbam = NaN
    THEN [kind |-> "raises", text |-> "cannot convert float NaN to integer"]
    ELSE [kind |-> "returns", pitcher_id |-> row.key_mlbam,
          pitcher_name |-> Title(row.name_first) \o " " \o Title(row.name_last)]

\* The tuple get_processed_data returns for a request and the frame the
\* provider holds; every exception ends in the `except Exception` clause.
GetProcessedDataResult(req, frame) ==
    IF req.playerid_lookup.kind = "raises"
    THEN Failure(LookupErrorMessage(req.playerid_lookup.text))
    ELSE IF req.playerid_lookup.kind = "empty"
    THEN Failure(NoPitcherMessage(req.first_name, req.last_name))
    ELSE LET id == GetPitcherId(req.playerid_lookup)
         IN  IF id.kind = "raises" THEN Failure(id.text)
             ELSE IF req.statcast_pitcher.kind = "raises"
             THEN Failure(FetchErrorMessage(req.statcast_pitcher.text))
             ELSE IF frame.rows = <<>>
             THEN Failure(NoDataMessage(id.pitcher_name, req.year))
             ELSE IF ~ (SelectedColumns \subseteq frame.columns)
             THEN Failure(KeyErrorMessage(
                      CHOOSE c \in SelectedColumns : c \notin frame.columns))
             ELSE [kind |-> "tuple",
                   processed_data |-> Some(ProcessRows(frame.rows)),
                   pitcher_name |-> Some(id.pitcher_name),
                   error_message |-> None]

\* `if error:` on the third element of the tuple
Truthy(error_message) == error_message # None /\ error_message[1] # ""

InitFetch ==
    /\ pc = "request"
    /\ raw_data \in FetchFrames
    /\ request \in Requests
    /\ result = NoResult
    /\ pitch_data = <<>>
    /\ count_data = EmptyDict
    /\ flow_counts = EmptyDict
    /\ lines = <<>>
    /\ nodes = NoNodes
    /\ legend = <<>>
    /\ error = "none"

\* self.data_fetcher.get_processed_data(first_name, last_name, year)
GetProcessedData ==
    /\ pc = "request"
    /\ result' = GetProcessedDataResult(request, raw_data)
    /\ pc' = "returned"
    /\ UNCHANGED <<raw_data, pitch_data, count_data, flow_counts, lines, nodes,
                   legend, error, request>>

\* _render_chart after the call: st.error and return when the error is
\* truthy, create_plinko_chart(pitch_data, ...) otherwise, which raises a
\* TypeError on pitch_data = None.
RenderChart ==
    /\ pc = "returned"
    /\ IF Truthy(result.error_message)
       THEN /\ pc' = "error_shown"
            /\ UNCHANGED <<pitch_data, error>>
       ELSE IF result.processed_data = None
       THEN /\ pc' = "raised"
            /\ error' = "TypeError"
            /\ UNCHANGED pitch_data
       ELSE /\ pc' = "processed"
            /\ pitch_data' = result.processed_data[1]
            /\ UNCHANGED error
    /\ UNCHANGED <<raw_data, count_data, flow_counts, lines, nodes, legend,
                   request, result>>

NextFetch == GetProcessedData \/ RenderChart \/ Construct \/ GenerateChart

SpecFetch == InitFetch /\ [][NextFetch]_vars

----------------------------------------------------------------------------
(* Properties *)

CountSet == Range(COUNT_ORDER)

\* The generator has been constructed from the processed frame.
Built == pc = "constructed" \/ (pc \in {"done", "raised"} /\ error # "KeyError")

\* generate_chart has run (to its return or to the exception of ax.legend).
Generated == pc = "done" \/ (pc = "raised" /\ error = "ValueError")

\* _draw_connecting_lines has run.
LinesDrawn == Generated \/ pc = "lines"

\* The input contract of the aggregator: every identifying field present,
\* one date per game, pitch numbers distinct within an at-bat of a game.
InputContract(rows) ==
    /\ \A i \in 1..Len(rows) :
          /\ rows[i].game_date # NaN
          /\ rows[i].at_bat_number # NaN
          /\ rows[i].pitch_number # NaN
          /\ rows[i].balls \in 0..3
          /\ rows[i].strikes \in 0..2
          /\ rows[i].game_date = GameDate(rows[i].game_pk)
    /\ \A i, j \in 1..Len(rows) :
          (/\ i # j
           /\ rows[i].game_pk = rows[j].game_pk
           /\ rows[i].at_bat_number = rows[j].at_bat_number)
          => rows[i].pitch_number # rows[j].pitch_number

\* C1: every key of the flow table is one of the 17 legal transitions; a
\* pair outside the set never becomes a key.
C1_LegalSetClosure == DOMAIN flow_counts \subseteq transition_set

\* An at-bat with an adjacent pair outside the legal set has been counted,
\* next to at least one legal transition.
C1_Witness ==
    /\ pc = "constructed"
    /\ error = "none"
    /\ DOMAIN flow_counts # {}
    /\ \E i \in 1..(Len(pitch_data) - 1) :
          /\ Grouped(pitch_data[i])
          /\ GroupKey(pitch_data[i]) = GroupKey(pitch_data[i + 1])
          /\ <<pitch_data[i].count, pitch_data[i + 1].count>> \notin transition_set

\* Events i and j of the table are sequence-adjacent events of one at-bat
\* of one game.
SequenceAdjacent(rows, i, j) ==
    /\ rows[i].game_pk = rows[j].game_pk
    /\ rows[i].at_bat_number = rows[j].at_bat_number
    /\ rows[i].pitch_number < rows[j].pitch_number
    /\ ~ \E k \in 1..Len(rows) :
            /\ rows[k].game_pk = rows[i].game_pk
            /\ rows[k].at_bat_number = rows[i].at_bat_number
            /\ rows[i].pitch_number < rows[k].pitch_number
            /\ rows[k].pitch_number < rows[j].pitch_number

AdjacentPairs(rows, t) ==
    {p \in (1..Len(rows)) \X (1..Len(rows)) :
        /\ SequenceAdjacent(rows, p[1], p[2])
        /\ CountOf(rows[p[1]], rows) = t[1]
        /\ CountOf(rows[p[2]], rows) = t[2]}

\* C2: for every legal transition the flow count is the number of
\* sequence-adjacent pairs of events of one at-bat of one game with these
\* two counts (on tables that meet the input contract).
C2_FlowIsAdjacentPairs ==
    (/\ pc = "constructed"
     /\ Len(raw_data.rows) <= 5
     /\ InputContract(raw_data.rows))
    => \A t \in transition_set :
          Get(flow_counts, t, 0) = Cardinality(AdjacentPairs(raw_data.rows, t))

Permute(rows, o) == [i \in 1..Len(rows) |-> rows[o[i]]]

\* C3: the flow table does not depend on the order of the rows: every
\* reordering of the rows of a table that meets the input contract gives
\* the same flow table.
C3_PermutationInvariant ==
    (/\ pc = "constructed"
     /\ Len(pitch_data) <= 4
     /\ InputContract(raw_data.rows))
    => \A o \in Orderings(1..Len(pitch_data)) :
          CalculateFlowCounts(Permute(pitch_data, o)) = flow_counts

\* C4: for each of the 12 counts the distribution sums to the number of
\* events with that derived count and a pitch_type that is not null.
C4_Conservation ==
    Built =>
      \A c \in CountSet :
         /\ c \in DOMAIN count_data
         /\ SumSeq([i \in 1..Len(count_data[c]) |-> count_data[c][i].n])
              = Cardinality({i \in 1..Len(pitch_data) :
                                /\ pitch_data[i].count = c
                                /\ pitch_data[i].pitch_type # NA})

\* A count with both an event of known type and an event of null type.
C4_Witness ==
    /\ Built
    /\ \E i, j \in 1..Len(pitch_data) :
          /\ pitch_data[i].count \in CountSet
          /\ pitch_data[i].count = pitch_data[j].count
          /\ pitch_data[i].pitch_type = NA
          /\ pitch_data[j].pitch_type # NA

\* C5: an empty table gives twelve empty distributions and an empty flow
\* table, and generate_chart returns without raising, with no line drawn
\* and every node the neutral disc.
C5_EmptyInputSafety ==
    (SelectedColumns \subseteq raw_data.columns /\ raw_data.rows = <<>>)
    => /\ pc # "raised"
       /\ error = "none"
       /\ Built => /\ DOMAIN count_data = CountSet
                   /\ \A c \in CountSet : count_data[c] = <<>>
                   /\ flow_counts = EmptyDict
       /\ Generated => /\ lines = <<>>
                       /\ \A c \in CountSet : nodes[c].kind = "circle"

EightyTwenty == (<<"0-0", "1-0">> :> 80) @@ (<<"0-0", "0-1">> :> 20)

LineOf(t) == CHOOSE l \in Range(lines) : <<l.start_count, l.end_count>> = t

\* C6 as stated: with the flow table {(0-0,1-0): 80, (0-0,0-1): 20} the
\* width of the first edge is 4 times the width of the second.
C6_WidthRatioIsFlowRatio ==
    (LinesDrawn /\ flow_counts = EightyTwenty)
    => /\ Len(lines) = 2
       /\ RatEq(LineOf(<<"0-0", "1-0">>).linewidth,
                RatMul(Rat(4, 1), LineOf(<<"0-0", "0-1">>).linewidth))

\* C6 amended: the widths of two drawn edges, each less min_line_width,
\* are in the ratio of their flow counts; with the flow table {80, 20} the
\* two edges are 18 and 5.625 wide.
C6_ExcessWidthRatioIsFlowRatio ==
    LinesDrawn =>
      /\ \A a, b \in Range(lines) :
            RatEq(RatMul(RatSub(a.linewidth, Rat(min_line_width, 1)),
                         Rat(flow_counts[<<b.start_count, b.end_count>>], 1)),
                  RatMul(RatSub(b.linewidth, Rat(min_line_width, 1)),
                         Rat(flow_counts[<<a.start_count, a.end_count>>], 1)))
      /\ flow_counts = EightyTwenty
           => /\ Len(lines) = 2
              /\ RatEq(LineOf(<<"0-0", "1-0">>).linewidth, Rat(180, 1))
              /\ RatEq(LineOf(<<"0-0", "0-1">>).linewidth, Rat(5625, 100))

C6_Witness ==
    /\ pc = "lines"
    /\ flow_counts = EightyTwenty
    /\ Len(lines) = 2

\* A required identifying field is missing: its column is absent, or a row
\* holds no value for it.
RequiredFields ==
    {"game_date", "at_bat_number", "pitch_number", "balls", "strikes"}

FieldMissing ==
    \/ ~ (RequiredFields \subseteq raw_data.columns)
    \/ \E i \in 1..Len(raw_data.rows), f \in RequiredFields :
          raw_data.rows[i][f] = NaN

\* C7: when a required identifying field is missing, processing raises:
\* no processed frame, no distributions and no flow table are produced.
C7_FailFast ==
    FieldMissing =>
      /\ pc \in {"raw", "raised"}
      /\ pc = "raised" => error = "KeyError"

\* The distinct non-null pitch types of the input.
TypesPresent ==
    {pitch_data[i].pitch_type : i \in 1..Len(pitch_data)} \ {NA}

\* C8: the legend has exactly one entry per distinct non-null pitch type of
\* the input (a table that meets the input contract), labelled with the number of its occurrences and colored as
\* the type's wedges are.
C8_LegendCoversAllTypes ==
    (Generated /\ InputContract(raw_data.rows)) =>
      /\ {legend[i].pitch_type : i \in 1..Len(legend)} = TypesPresent
      /\ Len(legend) = Cardinality(TypesPresent)
      /\ \A i \in 1..Len(legend) :
            /\ legend[i].count
                 = Cardinality({k \in 1..Len(pitch_data) :
                                   pitch_data[k].pitch_type = legend[i].pitch_type})
            /\ legend[i].color = WedgeColor(legend[i].pitch_type)

\* The events of the processed frame at a count with a given pitch type.
EventsAt(c, t) ==
    {i \in 1..Len(pitch_data) :
        pitch_data[i].count = c /\ pitch_data[i].pitch_type = t}

\* The events at a count with any non-null pitch type.
TypedEventsAt(c) ==
    {i \in 1..Len(pitch_data) :
        pitch_data[i].count = c /\ pitch_data[i].pitch_type # NA}

\* C9: a node with a non-empty distribution has one wedge per pitch type of
\* the distribution, the wedge of a type spans 360 * type_count / total
\* degrees, the first wedge starts at 90 degrees, each wedge starts where
\* the one before ended, and the last one ends at 450; one FF and one SL at
\* 0-0 give two wedges of 180 degrees.
C9_WedgeSpans ==
    Generated =>
      \A c \in CountSet :
         count_data[c] # <<>> =>
           LET w == nodes[c].wedges
           IN  /\ nodes[c].kind = "pie"
               /\ Len(w) = Len(count_data[c])
               /\ {w[i].pitch_type : i \in 1..Len(w)}
                    = {pitch_data[k].pitch_type : k \in TypedEventsAt(c)}
               /\ Len(w) = Cardinality({w[i].pitch_type : i \in 1..Len(w)})
               /\ \A i \in 1..Len(w) :
                     RatEq(RatSub(w[i].theta2, w[i].theta1),
                           Rat(360 * Cardinality(EventsAt(c, w[i].pitch_type)),
                               Cardinality(TypedEventsAt(c))))
               /\ RatEq(w[1].theta1, Rat(90, 1))
               /\ \A i \in 1..(Len(w) - 1) : RatEq(w[i + 1].theta1, w[i].theta2)
               /\ RatEq(w[Len(w)].theta2, Rat(450, 1))
               /\ (/\ Cardinality(EventsAt(c, "FF")) = 1
                   /\ Cardinality(EventsAt(c, "SL")) = 1
                   /\ Cardinality(TypedEventsAt(c)) = 2)
                  => /\ Len(w) = 2
                     /\ \A i \in 1..2 :
                           RatEq(RatSub(w[i].theta2, w[i].theta1), Rat(180, 1))

\* One FF and one SL at 0-0 have been drawn.
C9_Witness ==
    /\ pc = "done"
    /\ Cardinality(EventsAt("0-0", "FF")) = 1
    /\ Cardinality(EventsAt("0-0", "SL")) = 1
    /\ Cardinality(TypedEventsAt("0-0")) = 2
    /\ Len(nodes["0-0"].wedges) = 2

\* The pitch type codes in lexical order.
LexOrder ==
    <<"CH", "CU", "FC", "FF", "FS", "KC", "KN", "SI", "SL", "ST", "SV">>

LexLess(a, b) ==
    \E i, j \in 1..Len(LexOrder) : i < j /\ LexOrder[i] = a /\ LexOrder[j] = b

\* C10: the entries of a distribution (and so the wedges) are in descending
\* frequency, entries of equal frequency in lexical order of the code (on
\* tables that meet the input contract).
C10_CanonicalOrder ==
    (Built /\ InputContract(raw_data.rows)) =>
      \A c \in CountSet :
         \A i, j \in 1..Len(count_data[c]) :
            i < j =>
              \/ count_data[c][i].n > count_data[c][j].n
              \/ /\ count_data[c][i].n = count_data[c][j].n
                 /\ LexLess(count_data[c][i].pitch_type,
                            count_data[c][j].pitch_type)

\* The pairs of events the loops of _calculate_flow_counts pair into a
\* transition for a table: consecutive rows of one group of the sorted frame.
PairedEvents(rows) ==
    LET sorted == SortValues(rows)
    IN  UNION {LET InGroup(r) == Grouped(r) /\ GroupKey(r) = key
                   group == SelectSeq(sorted, InGroup)
               IN  {<<group[i], group[i + 1]>> : i \in 1..(Len(group) - 1)} :
               key \in Range(GroupKeys(sorted, <<>>))}

\* The pairs of events of one at-bat of one game, the earlier one first,
\* whose counts are those of transition t.
SameAtBatPairs(rows, t) ==
    {p \in (1..Len(rows)) \X (1..Len(rows)) :
        /\ rows[p[1]].game_pk = rows[p[2]].game_pk
        /\ rows[p[1]].at_bat_number = rows[p[2]].at_bat_number
        /\ rows[p[1]].pitch_number < rows[p[2]].pitch_number
        /\ CountOf(rows[p[1]], rows) = t[1]
        /\ CountOf(rows[p[2]], rows) = t[2]}

\* C11: a transition is counted only between two events of the same game
\* and the same at-bat (on tables that meet the input contract): the two
\* events of every pair the aggregator forms agree in game and at-bat, and
\* no transition has more counts than there are such pairs of events.
C11_PairsWithinOneGame ==
    (pc = "constructed" /\ InputContract(raw_data.rows))
    => /\ \A p \in PairedEvents(raw_data.rows) :
             /\ p[1].game_pk = p[2].game_pk
             /\ p[1].at_bat_number = p[2].at_bat_number
       /\ \A t \in transition_set :
             Get(flow_counts, t, 0)
                <= Cardinality(SameAtBatPairs(raw_data.rows, t))

\* The largest count of the flow table: a value of the table that no value
\* of the table exceeds.
IsMaxFlow(m) ==
    /\ \E t \in DOMAIN flow_counts : flow_counts[t] = m
    /\ \A t \in DOMAIN flow_counts : flow_counts[t] <= m

\* C12: every drawn edge is min_line_width + (flow / max_flow) *
\* (max_line_width - min_line_width) wide, so wider than min_line_width and
\* at most max_line_width wide, and an edge whose flow is max_flow is
\* exactly max_line_width wide.
C12_InterpolatedWidth ==
    LinesDrawn =>
      \A l \in Range(lines) :
         LET flow == flow_counts[<<l.start_count, l.end_count>>]
         IN  \A m \in {flow_counts[t] : t \in DOMAIN flow_counts} :
                IsMaxFlow(m) =>
                  /\ RatEq(l.linewidth,
                           Rat(min_line_width * m
                                 + flow * (max_line_width - min_line_width), m))
                  /\ RatLess(Rat(min_line_width, 1), l.linewidth)
                  /\ ~ RatLess(Rat(max_line_width, 1), l.linewidth)
                  /\ flow = m => RatEq(l.linewidth, Rat(max_line_width, 1))

\* Two edges of different flow have been drawn: one at the full width and
\* one narrower.
C12_Witness ==
    /\ pc = "lines"
    /\ \E a, b \in Range(lines) :
          /\ RatEq(a.linewidth, Rat(max_line_width, 1))
          /\ RatLess(b.linewidth, a.linewidth)
          /\ RatLess(Rat(min_line_width, 1), b.linewidth)

\* C13: exactly one segment is drawn for each legal transition with a flow
\* count greater than 0 and none for a transition with no flow; an empty
\* flow table draws nothing.
C13_DrawnIffFlow ==
    LinesDrawn =>
      /\ {<<lines[i].start_count, lines[i].end_count>> : i \in 1..Len(lines)}
           = {t \in transition_set : Get(flow_counts, t, 0) > 0}
      /\ Len(lines) = Cardinality({t \in transition_set :
                                      Get(flow_counts, t, 0) > 0})
      /\ flow_counts = EmptyDict => lines = <<>>

\* Lines have been drawn for a flow table that lacks some legal transition.
C13_Witness ==
    /\ pc = "done"
    /\ lines # <<>>
    /\ \E t \in transition_set : t \notin DOMAIN flow_counts

\* The chart core has been entered: a generator was given the frame.
CoreReached ==
    pc \in {"processed", "constructed", "done"}
    \/ (pc = "raised" /\ error # "none")

\* C14: get_processed_data returns (data, name, None) or (None, None,
\* message) with a non-empty message whatever the lookup and the fetch do,
\* the chart core is entered only after a fetch that returned rows, and a
\* pitcher that is not found and a season without pitches give different
\* messages.
C14_FetchNeverRaises ==
    request # NoRequest =>
      /\ pc \in {"request", "returned", "error_shown", "processed",
                 "constructed", "done", "raised"}
      /\ pc = "raised" => error = "ValueError"
      /\ result # NoResult =>
            \/ /\ result.error_message = None
               /\ result.processed_data # None
               /\ result.pitcher_name # None
            \/ /\ result.processed_data = None
               /\ result.pitcher_name = None
               /\ result.error_message # None
               /\ result.error_message[1] # ""
      /\ CoreReached =>
            /\ result.error_message = None
            /\ request.playerid_lookup.kind = "rows"
            /\ request.statcast_pitcher.kind = "returns"
            /\ raw_data.rows # <<>>
            /\ pitch_data = ProcessRows(raw_data.rows)
      /\ (result # NoResult /\ request.playerid_lookup.kind = "empty") =>
            /\ result.error_message
                 = Some(NoPitcherMessage(request.first_name, request.last_name))
            /\ \A y \in {2024, 2025}, n \in {"Max Fried"} :
                  result.error_message # Some(NoDataMessage(n, y))
      /\ (/\ result # NoResult
          /\ request.playerid_lookup.kind = "rows"
          /\ GetPitcherId(request.playerid_lookup).kind = "returns"
          /\ request.statcast_pitcher.kind = "returns"
          /\ raw_data.rows = <<>>) =>
            /\ result.error_message = Some(NoDataMessage("Max Fried", request.year))
            /\ \A f \in {"max"}, l \in {"fried", "scherzer"} :
                  result.error_message # Some(NoPitcherMessage(f, l))

\* The lookup raised an exception without text and the page showed the
\* error instead of drawing.
C14_Witness ==
    /\ pc = "error_shown"
    /\ request.playerid_lookup.kind = "raises"
    /\ request.playerid_lookup.text = ""
    /\ result.processed_data = None

====
